---- MODULE Spec2Model ----
(***************************************************************************)
(* Model of src/converter.py: the fixed-position snippet parser            *)
(* (format_metadata, parse_code), the category merge and persist step      *)
(* (save_category_to_json), the language lookup (get_code_lang) and the    *)
(* orchestration in run().                                                 *)
(*                                                                         *)
(* A Python str is a sequence of one-character strings.  An optional value *)
(* (None or an object, a file that may not exist) is a sequence of length  *)
(* 0 or 1.                                                                 *)
(***************************************************************************)
EXTENDS Integers, Sequences, FiniteSets, TLC

VARIABLES
    argv,       \* sys.argv[1:] of the last invocation
    input,      \* the file sys.argv[1] names, as the last invocation found it
    existing,   \* the `category` keyword argument handed to parse_code
    converted,  \* converted_code_category: result of parse_code, <<>> if it raised
    lang,       \* code_lang.lower() of the last invocation, <<>> if not reached
    storage,    \* the output files: storage[l] is <l>.json, <<>> if absent, else <<file>>
    before,     \* the output files as they were when the last invocation started
    started,    \* the output files before the first invocation
    outcome,    \* how the last invocation ended
    history,    \* language and category of every successful invocation, in order
    runs        \* number of invocations so far

vars == <<argv, input, existing, converted, lang, storage, before, started,
          outcome, history, runs>>


-----------------------------------------------------------------------------
(* Bounds *)

MaxRuns == 3
MaxInitCats == 2
MaxLineLen == 4
MaxTextLen == 8

-----------------------------------------------------------------------------
(* Python str helpers *)

NL == "\n"

\* characters removed by str.strip() with no argument
IsSpace(c) == c \in {" ", "\t", NL}

RECURSIVE LStrip(_)
LStrip(s) ==
    IF s = <<>> THEN <<>>
    ELSE IF IsSpace(Head(s)) THEN LStrip(Tail(s)) ELSE s

RECURSIVE RStrip(_)
RStrip(s) ==
    IF s = <<>> THEN <<>>
    ELSE IF IsSpace(s[Len(s)]) THEN RStrip(SubSeq(s, 1, Len(s) - 1)) ELSE s

\* str.strip()
Strip(s) == RStrip(LStrip(s))

\* str.find(pat) + 1: index of the leftmost occurrence of pat in s, 0 if none
Find(s, pat) ==
    LET hits == {i \in 1..(Len(s) - Len(pat) + 1) :
                     SubSeq(s, i, i + Len(pat) - 1) = pat}
    IN  IF hits = {} THEN 0 ELSE CHOOSE i \in hits : \A j \in hits : i <= j

\* str.replace(pat, "", 1): the leftmost occurrence of pat is deleted
ReplaceFirst(s, pat) ==
    LET i == Find(s, pat)
    IN  IF i = 0 THEN s
        ELSE SubSeq(s, 1, i - 1) \o SubSeq(s, i + Len(pat), Len(s))

\* str.split(sep) for a one-character separator: always at least one piece
RECURSIVE Split(_, _)
Split(s, sep) ==
    LET i == Find(s, <<sep>>)
    IN  IF i = 0 THEN <<s>>
        ELSE <<SubSeq(s, 1, i - 1)>> \o Split(SubSeq(s, i + 1, Len(s)), sep)

\* str.count(c) for a one-character c
Count(s, c) == Cardinality({i \in 1..Len(s) : s[i] = c})

UpperCase == <<"A", "B", "C", "D", "E", "F", "G", "H", "I", "J", "K", "L", "M",
               "N", "O", "P", "Q", "R", "S", "T", "U", "V", "W", "X", "Y", "Z">>
LowerCase == <<"a", "b", "c", "d", "e", "f", "g", "h", "i", "j", "k", "l", "m",
               "n", "o", "p", "q", "r", "s", "t", "u", "v", "w", "x", "y", "z">>

\* str.lower()
Lower(s) ==
    [i \in 1..Len(s) |->
        IF \E k \in 1..26 : UpperCase[k] = s[i]
        THEN LowerCase[CHOOSE k \in 1..26 : UpperCase[k] = s[i]]
        ELSE s[i]]

\* "\n".join(lines), used to build input texts
RECURSIVE Join(_)
Join(lines) ==
    IF Len(lines) = 0 THEN <<>>
    ELSE IF Len(lines) = 1 THEN lines[1]
    ELSE lines[1] \o <<NL>> \o Join(Tail(lines))

-----------------------------------------------------------------------------
(* Parser *)

format_metadata(line) ==
    Strip(ReplaceFirst(ReplaceFirst(line, <<"/", "/">>), <<"#">>))

\* faulty variant: empty tags are filtered out
parse_tags_nonempty(line) ==
    LET pieces == Split(format_metadata(line), ",")
    IN  SelectSeq([i \in 1..Len(pieces) |-> Strip(pieces[i])],
                  LAMBDA t : t # <<>>)

\* [tag.strip() for tag in format_metadata(code_lines[3]).split(",")]
parse_tags(line) ==
    LET pieces == Split(format_metadata(line), ",")
    IN  [i \in 1..Len(pieces) |-> Strip(pieces[i])]

\* faulty variant: the separator line is taken as the first line of code
copy_code_from_separator(code_lines) == SubSeq(code_lines, 6, Len(code_lines))

\* for line in code_lines[6:]: snippet.code.append(line)
copy_code(code_lines) == SubSeq(code_lines, 7, Len(code_lines))

\* faulty variant: the check admits an input of 6 lines
too_short_off_by_one(code_lines) == Len(code_lines) < 6

\* if len(code_lines) < 7: raise SyntaxError
too_short(code_lines) == Len(code_lines) < 7

\* parse_code(code, category=category); `category` is <<>> for None.
\* The result is <<>> when SyntaxError is raised, else <<the category>>.
\* Python's code_lines[k] is code_lines[k + 1] here.
parse_code(code, category) ==
    LET code_lines == Split(code, NL)
    IN  IF too_short(code_lines) THEN <<>>
        ELSE LET snippet == [title       |-> format_metadata(code_lines[2]),
                             description |-> format_metadata(code_lines[3]),
                             code        |-> copy_code(code_lines),
                             tags        |-> parse_tags(code_lines[4]),
                             author      |-> format_metadata(code_lines[5])]
             IN  IF category = <<>>
                 THEN <<[categoryName |-> format_metadata(code_lines[1]),
                         snippets     |-> <<snippet>>]>>
                 ELSE <<[category[1] EXCEPT !.snippets = Append(@, snippet)]>>

-----------------------------------------------------------------------------
(* Merger / persister *)

\* The content of <lang>.json.  `valid` tells whether it conforms to
\* JSONModel; `canonical` tells whether the text is byte for byte what
\* model_dump_json(indent=INDENT_SIZE) writes for `root` (a hand-edited file
\* with other whitespace, or with keys the models ignore, is valid but not
\* canonical).
File(valid, canonical, root) ==
    [valid |-> valid, canonical |-> canonical, root |-> root]

\* JSONModel.model_validate_json(text): <<>> when ValidationError is raised
model_validate_json(file) == IF file.valid THEN <<file.root>> ELSE <<>>

\* json_content.model_dump_json(indent=INDENT_SIZE)
model_dump_json(root) == File(TRUE, TRUE, root)

\* indices of the categories of root called name (exact comparison)
Matches(root, name) == {i \in 1..Len(root) : root[i].categoryName = name}

Min(S) == CHOOSE i \in S : \A j \in S : i <= j

\* faulty variant: the new category is always added as a new entry
merge_always_new(root, category_object) == Append(root, category_object)

\* faulty variant: the new snippets go in front of the snippets already stored
merge_prepend(root, category_object) ==
    LET found == Matches(root, category_object.categoryName)
    IN  IF found = {} THEN Append(root, category_object)
        ELSE [root EXCEPT ![Min(found)].snippets = category_object.snippets \o @]

\* faulty variant: the new category is put in front of the categories already stored
merge_new_first(root, category_object) ==
    LET found == Matches(root, category_object.categoryName)
    IN  IF found = {} THEN <<category_object>> \o root
        ELSE [root EXCEPT ![Min(found)].snippets = @ \o category_object.snippets]

\* faulty variant: the snippets already stored are replaced by the new ones
merge_replace(root, category_object) ==
    LET found == Matches(root, category_object.categoryName)
    IN  IF found = {} THEN Append(root, category_object)
        ELSE [root EXCEPT ![Min(found)].snippets = category_object.snippets]

\* faulty variant: the scan does not stop at the first category of that name
merge_every_match(root, category_object) ==
    LET found == Matches(root, category_object.categoryName)
    IN  IF found = {} THEN Append(root, category_object)
        ELSE [i \in 1..Len(root) |->
                 IF i \in found
                 THEN [root[i] EXCEPT !.snippets = @ \o category_object.snippets]
                 ELSE root[i]]

\* the for/else over json_content.root: the first category of that name
\* receives the snippets, and without one the category is appended
merge(root, category_object) ==
    LET found == Matches(root, category_object.categoryName)
    IN  IF found = {} THEN Append(root, category_object)
        ELSE [root EXCEPT ![Min(found)].snippets = @ \o category_object.snippets]

\* faulty variant: the new Document is written before the stored one is validated
save_category_to_json_write_first(file, category_object) ==
    IF file # <<>>
    THEN LET json_content == model_validate_json(file[1])
         IN  IF json_content = <<>>
             THEN [raised |-> "ValidationError",
                   file   |-> <<model_dump_json(<<category_object>>)>>]
             ELSE [raised |-> "",
                   file   |-> <<model_dump_json(merge(json_content[1],
                                                      category_object))>>]
    ELSE [raised |-> "", file |-> <<model_dump_json(<<category_object>>)>>]

\* save_category_to_json(category_object, lang=lang) on the output file
\* `file` (<<>> if there is none): the exception raised, if any, and the
\* output file afterwards.
save_category_to_json(file, category_object) ==
    IF file # <<>>
    THEN LET json_content == model_validate_json(file[1])
         IN  IF json_content = <<>>
             THEN [raised |-> "ValidationError", file |-> file]
             ELSE [raised |-> "",
                   file   |-> <<model_dump_json(merge(json_content[1],
                                                      category_object))>>]
    ELSE [raised |-> "", file |-> <<model_dump_json(<<category_object>>)>>]

-----------------------------------------------------------------------------
(* Language of the output file *)

DEFAULT_LANGUAGE == <<"p", "y", "t", "h", "o", "n">>

Javascript == <<"j", "a", "v", "a", "s", "c", "r", "i", "p", "t">>

RECOGNIZED_LANGUAGES ==
    (<<"p", "y">> :> <<"p", "y", "t", "h", "o", "n">>) @@ (<<"j", "s">> :> Javascript)

\* get_code_lang(file_path): <<>> for None
get_code_lang(path) ==
    LET file_path == IF Count(path, "/") = 0 THEN <<".", "/">> \o path ELSE path
        parts == Split(file_path, "/")
        file_name == parts[Len(parts)]
    IN  IF Count(file_path, ".") = 0 THEN <<>>
        ELSE LET pieces == Split(file_name, ".")
                 file_extension == pieces[Len(pieces)]
             IN  IF file_extension \in DOMAIN RECOGNIZED_LANGUAGES
                 THEN <<RECOGNIZED_LANGUAGES[file_extension]>>
                 ELSE <<>>

\* code_lang as run() settles it: the language of the extension, else
\* sys.argv[2], else the default
code_lang(args) ==
    LET found == get_code_lang(args[1])
    IN  IF found # <<>> THEN found[1]
        ELSE IF Len(args) < 2 THEN DEFAULT_LANGUAGE ELSE args[2]

-----------------------------------------------------------------------------
(* Input files *)

InputFile(exists, readable, content) ==
    [exists |-> exists, readable |-> readable, content |-> content]

NoFile == InputFile(FALSE, FALSE, <<>>)

\* get_file_content(file_path): the exception raised, if any, else the content
get_file_content(file) ==
    IF ~file.exists THEN [raised |-> "FileNotFoundError", content |-> <<>>]
    ELSE IF ~file.readable THEN [raised |-> "PermissionError", content |-> <<>>]
    ELSE [raised |-> "", content |-> file.content]

-----------------------------------------------------------------------------
(* Inputs of the invocations *)

\* all sequences over S of length at most n
RECURSIVE SeqsUpTo(_, _)
SeqsUpTo(S, n) ==
    IF n = 0 THEN {<<>>}
    ELSE LET shorter == SeqsUpTo(S, n - 1)
         IN  shorter \cup {Append(s, c) : s \in {t \in shorter : Len(t) = n - 1}, c \in S}

\* a snippet file with the given category and title lines
SnippetText(category_line, title_line) ==
    Join(<<category_line, title_line, <<"d">>, <<"x", ",", " ", "y">>, <<"J">>,
           <<>>, <<" ", "r">>, <<>>>>)

\* the snippet files: category "A" with title "t", category "#A " with
\* title "// u", category "a" with title "t"
SnippetTexts ==
    {SnippetText(<<"A">>, <<"t">>),
     SnippetText(<<"#", "A", " ">>, <<"/", "/", " ", "u">>),
     SnippetText(<<"a">>, <<"t">>)}

\* a file that stops after the separator line: 6 lines
ShortText == Join(<<<<"A">>, <<"t">>, <<"d">>, <<"x">>, <<"J">>, <<>>>>)

\* the files sys.argv[1] may name
InputFiles ==
    {NoFile, InputFile(TRUE, FALSE, ShortText), InputFile(TRUE, TRUE, ShortText)}
    \cup {InputFile(TRUE, TRUE, text) : text \in SnippetTexts}

\* the paths "s.py", "s.js" and "s"
PathPy == <<"s", ".", "p", "y">>
PathJs == <<"s", ".", "j", "s">>
PathPlain == <<"s">>

\* the command lines with a file, and the file each finds: every input file
\* under s.py, one snippet file under the other names
Invocations ==
    {[args |-> <<PathPy>>, file |-> f] : f \in InputFiles}
    \cup {[args |-> a, file |-> InputFile(TRUE, TRUE, SnippetText(<<"A">>, <<"t">>))] :
             a \in {<<PathJs>>, <<PathPlain>>, <<PathPlain, <<"J", "S">>>>}}

\* the languages the invocations write
Langs == {Lower(code_lang(i.args)) : i \in Invocations}

\* a snippet already stored in the output file
Prior == [title |-> <<"p">>, description |-> <<>>, code |-> <<<<"q">>>>,
          tags |-> <<<<>>>>, author |-> <<"K">>]

\* the categories an output file may hold before the first invocation
InitCategories ==
    {[categoryName |-> <<"A">>, snippets |-> <<>>],
     [categoryName |-> <<"A">>, snippets |-> <<Prior>>],
     [categoryName |-> <<"a">>, snippets |-> <<Prior>>]}

\* python.json before the first invocation: absent, not a Document, or some
\* Document, written by this program or by hand
InitStorage ==
    {<<>>, <<File(FALSE, FALSE, <<>>)>>}
    \cup {<<File(TRUE, c, root)>> : c \in BOOLEAN,
                                    root \in SeqsUpTo(InitCategories, MaxInitCats)}

NoFiles == [l \in Langs |-> <<>>]

-----------------------------------------------------------------------------
(* run(): one action per way the invocation ends *)

Init ==
    /\ argv = <<>>
    /\ input = NoFile
    /\ existing = <<>>
    /\ converted = <<>>
    /\ lang = <<>>
    /\ \E file \in InitStorage : storage = [NoFiles EXCEPT ![DEFAULT_LANGUAGE] = file]
    /\ before = storage
    /\ started = storage
    /\ outcome = "none"
    /\ history = <<>>
    /\ runs = 0

\* len(sys.argv) < 2: the usage text is printed
RunUsage ==
    /\ runs < MaxRuns
    /\ argv' = <<>>
    /\ input' = NoFile
    /\ converted' = <<>>
    /\ lang' = <<>>
    /\ before' = storage
    /\ outcome' = "usage"
    /\ runs' = runs + 1
    /\ UNCHANGED <<existing, storage, started, history>>

\* get_file_content raises: the message is printed
RunReadError ==
    /\ runs < MaxRuns
    /\ \E i \in Invocations :
          /\ get_file_content(i.file).raised # ""
          /\ argv' = i.args
          /\ input' = i.file
          /\ outcome' = get_file_content(i.file).raised
    /\ converted' = <<>>
    /\ lang' = <<>>
    /\ before' = storage
    /\ runs' = runs + 1
    /\ UNCHANGED <<existing, storage, started, history>>

\* parse_code raises: the message is printed
RunParseError ==
    /\ runs < MaxRuns
    /\ \E i \in Invocations :
          /\ get_file_content(i.file).raised = ""
          /\ parse_code(get_file_content(i.file).content, <<>>) = <<>>
          /\ argv' = i.args
          /\ input' = i.file
          /\ lang' = Lower(code_lang(i.args))
    /\ converted' = <<>>
    /\ before' = storage
    /\ outcome' = "SyntaxError"
    /\ runs' = runs + 1
    /\ UNCHANGED <<existing, storage, started, history>>

\* save_category_to_json raises: the message is printed
RunSaveError ==
    /\ runs < MaxRuns
    /\ \E i \in Invocations :
          /\ get_file_content(i.file).raised = ""
          /\ LET category == parse_code(get_file_content(i.file).content, <<>>)
                 l == Lower(code_lang(i.args))
             IN  /\ category # <<>>
                 /\ LET saved == save_category_to_json(storage[l], category[1])
                    IN  /\ saved.raised # ""
                        /\ outcome' = saved.raised
                        /\ storage' = [storage EXCEPT ![l] = saved.file]
                 /\ converted' = category
                 /\ lang' = l
          /\ argv' = i.args
          /\ input' = i.file
    /\ before' = storage
    /\ runs' = runs + 1
    /\ UNCHANGED <<existing, started, history>>

\* the file is read, parsed, merged and written
RunSaved ==
    /\ runs < MaxRuns
    /\ \E i \in Invocations :
          /\ get_file_content(i.file).raised = ""
          /\ LET category == parse_code(get_file_content(i.file).content, <<>>)
                 l == Lower(code_lang(i.args))
             IN  /\ category # <<>>
                 /\ LET saved == save_category_to_json(storage[l], category[1])
                    IN  /\ saved.raised = ""
                        /\ storage' = [storage EXCEPT ![l] = saved.file]
                 /\ converted' = category
                 /\ lang' = l
                 /\ history' = Append(history, [lang |-> l, category |-> category[1]])
          /\ argv' = i.args
          /\ input' = i.file
    /\ before' = storage
    /\ outcome' = "saved"
    /\ runs' = runs + 1
    /\ UNCHANGED <<existing, started>>

Next == RunUsage \/ RunReadError \/ RunParseError \/ RunSaveError \/ RunSaved

Spec == Init /\ [][Next]_vars

-----------------------------------------------------------------------------
(* parse_code on its own, over all short texts *)

\* texts of up to MaxTextLen characters: up to MaxTextLen + 1 lines
LineTexts == SeqsUpTo({NL, "a", " "}, MaxTextLen)

\* metadata lines of up to MaxLineLen characters
MetaLines == SeqsUpTo({"/", "#", " ", ",", "a"}, MaxLineLen)

\* a 7-line text with `line` as line k (0 to 4)
MetaText(line, k) ==
    Join([i \in 1..7 |-> IF i = k + 1 THEN line
                         ELSE IF i = 7 THEN <<"r">> ELSE <<>>])

MetaTexts == {MetaText(line, k) : line \in MetaLines, k \in 0..4}

\* the tag line "a, b ,c"
ExampleTags == <<"a", ",", " ", "b", " ", ",", "c">>

ExampleTexts == {MetaText(ExampleTags, 3)}

\* a category handed to parse_code by a caller that already has one
Given == [categoryName |-> <<"G">>, snippets |-> <<Prior>>]

InitParse ==
    /\ argv = <<PathPy>>
    /\ input \in {InputFile(TRUE, TRUE, text) :
                     text \in LineTexts \cup MetaTexts \cup ExampleTexts}
    /\ existing \in {<<>>, <<Given>>}
    /\ converted = <<>>
    /\ lang = <<>>
    /\ storage = NoFiles
    /\ before = NoFiles
    /\ started = NoFiles
    /\ outcome = "none"
    /\ history = <<>>
    /\ runs = 0

\* parse_code(content, category=existing) returns
ParseReturns ==
    /\ outcome = "none"
    /\ parse_code(input.content, existing) # <<>>
    /\ converted' = parse_code(input.content, existing)
    /\ outcome' = "parsed"
    /\ UNCHANGED <<argv, input, existing, lang, storage, before, started, history, runs>>

\* parse_code(content, category=existing) raises
ParseRaises ==
    /\ outcome = "none"
    /\ parse_code(input.content, existing) = <<>>
    /\ converted' = <<>>
    /\ outcome' = "SyntaxError"
    /\ UNCHANGED <<argv, input, existing, lang, storage, before, started, history, runs>>

NextParse == ParseReturns \/ ParseRaises

SpecParse == InitParse /\ [][NextParse]_vars

-----------------------------------------------------------------------------
(* Vocabulary of the properties, defined without the operators above *)

\* the output file holds a Document
HasDocument(file) == file # <<>> /\ file[1].valid

\* the Document an output file holds
Document(file) == file[1].root

\* position of the k-th c in s; 0 for k = 0, Len(s) + 1 past the last one
Nth(s, c, k) ==
    IF k = 0 THEN 0
    ELSE IF k > Count(s, c) THEN Len(s) + 1
    ELSE CHOOSE p \in 1..Len(s) :
            s[p] = c /\ Cardinality({q \in 1..p : s[q] = c}) = k

\* the k-th piece (from 0) of s between occurrences of c
Piece(s, c, k) == SubSeq(s, Nth(s, c, k) + 1, Nth(s, c, k + 1) - 1)

\* number of lines of a text
LineCount(text) == Count(text, NL) + 1

\* line k (from 0) of a text
Line(text, k) == Piece(text, NL, k)

\* the text with line k (from 0) replaced by r
WithLine(text, k, r) ==
    SubSeq(text, 1, Nth(text, NL, k)) \o r
        \o SubSeq(text, Nth(text, NL, k + 1), Len(text))

Max(S) == CHOOSE i \in S : \A j \in S : i >= j

\* s without its leading and trailing blanks
Trimmed(s) ==
    LET solid == {i \in 1..Len(s) : s[i] # " "}
    IN  IF solid = {} THEN <<>> ELSE SubSeq(s, Min(solid), Max(solid))

\* s without a comment marker that starts it
Unmarked(s) ==
    IF Len(s) >= 2 /\ s[1] = "/" /\ s[2] = "/" THEN SubSeq(s, 3, Len(s))
    ELSE IF Len(s) >= 1 /\ s[1] = "#" THEN SubSeq(s, 2, Len(s))
    ELSE s

\* the snippet the last parse_code call made
Parsed == converted[1].snippets[Len(converted[1].snippets)]

-----------------------------------------------------------------------------
(* Properties of save_category_to_json and run, under Spec *)

\* the category handed to save_category_to_json by the last invocation
New == converted[1]

\* the output file of the last invocation, before it and after it
Old == before[lang]
Now == storage[lang]

\* the last invocation merged New into a stored Document
Merged == outcome = "saved" /\ HasDocument(Old)

Found == Matches(Document(Old), New.categoryName)

\* C1: merging a category whose name is already stored appends its snippets,
\* in order, after the snippets of a stored category of that name; the prior
\* snippets keep position and content, the other categories are unchanged and
\* the number of categories is unchanged.
C1_MergeAppendsSnippets ==
    (Merged /\ Found # {}) =>
        LET old == Document(Old)
            new == Document(Now)
        IN  /\ HasDocument(Now)
            /\ Len(new) = Len(old)
            /\ \E i \in Found :
                  /\ new[i].categoryName = old[i].categoryName
                  /\ Len(new[i].snippets)
                        = Len(old[i].snippets) + Len(New.snippets)
                  /\ \A k \in 1..Len(old[i].snippets) :
                        new[i].snippets[k] = old[i].snippets[k]
                  /\ \A k \in 1..Len(New.snippets) :
                        new[i].snippets[Len(old[i].snippets) + k] = New.snippets[k]
                  /\ \A j \in 1..Len(old) : j # i => new[j] = old[j]

C1_Witness ==
    /\ Merged
    /\ \E i \in Found : Document(Old)[i].snippets # <<>>
    /\ Len(Document(Old)) >= 2

\* C2: merging a category whose name is not stored makes it the last
\* category of the Document and leaves every prior category, with its name,
\* snippets and position, unchanged.
C2_NewCategoryIsLast ==
    (Merged /\ Found = {}) =>
        LET old == Document(Old)
            new == Document(Now)
        IN  /\ HasDocument(Now)
            /\ Len(new) = Len(old) + 1
            /\ new[Len(new)] = New
            /\ \A j \in 1..Len(old) : new[j] = old[j]

C2_Witness ==
    /\ Merged
    /\ Found = {}
    /\ Len(Document(Old)) >= 1

\* no two categories of the Document have the same name
UniqueNames(root) ==
    \A i, j \in 1..Len(root) :
        root[i].categoryName = root[j].categoryName => i = j

\* the categories the successful invocations for language l submitted, in order
RECURSIVE Submitted(_, _)
Submitted(h, l) ==
    IF h = <<>> THEN <<>>
    ELSE (IF Head(h).lang = l THEN <<Head(h).category>> ELSE <<>>)
            \o Submitted(Tail(h), l)

\* C3: for a language that starts without an output file, after any sequence
\* of invocations, successful or failing, the persisted Document never has two
\* categories of the same name.
C3_NamesStayUnique ==
    \A l \in Langs :
        (started[l] = <<>> /\ storage[l] # <<>>) =>
            HasDocument(storage[l]) /\ UniqueNames(Document(storage[l]))

C3_Witness ==
    \E l \in Langs :
        /\ started[l] = <<>>
        /\ HasDocument(storage[l])
        /\ runs > Len(history)
        /\ \E i, j \in 1..Len(history) :
              /\ i < j
              /\ history[i].lang = l
              /\ history[j].lang = l
              /\ history[i].category.categoryName = history[j].category.categoryName

\* C8: an invocation that fails with a missing input file, an unreadable
\* input file, a format error or a corrupt output file leaves the output file
\* exactly as it was: not created, not rewritten.
C8_FailureLeavesOutputFile ==
    outcome \in {"FileNotFoundError", "PermissionError", "SyntaxError",
                 "ValidationError"}
        => \A l \in Langs : storage[l] = before[l]

C8_Witness ==
    /\ outcome = "ValidationError"
    /\ converted # <<>>
    /\ Now # <<>>
    /\ Now = Old

\* C9: when several stored categories have the name of the new category, the
\* new snippets are appended to the first of them only; the later ones and
\* the categories of any other name (also one that differs only in case) are
\* unchanged and no category is added.
C9_FirstMatchWins ==
    (Merged /\ Cardinality(Found) >= 2) =>
        LET old == Document(Old)
            new == Document(Now)
            first == Min(Found)
        IN  /\ HasDocument(Now)
            /\ Len(new) = Len(old)
            /\ new[first].snippets = old[first].snippets \o New.snippets
            /\ new[first].categoryName = old[first].categoryName
            /\ \A j \in 1..Len(old) : j # first => new[j] = old[j]

C9_Witness ==
    /\ Merged
    /\ Cardinality(Found) >= 2
    /\ \E j \in 1..Len(Document(Old)) : Document(Old)[j].categoryName = <<"a">>
    /\ New.categoryName = <<"A">>

\* the names of the categories of h, each once, in the order of first occurrence
RECURSIVE FirstNames(_)
FirstNames(h) ==
    IF h = <<>> THEN <<>>
    ELSE LET earlier == FirstNames(SubSeq(h, 1, Len(h) - 1))
             name == h[Len(h)].categoryName
         IN  IF \E i \in 1..Len(earlier) : earlier[i] = name
             THEN earlier ELSE Append(earlier, name)

\* the snippets of the categories of h called name, in the order of h
RECURSIVE SnippetsNamed(_, _)
SnippetsNamed(h, name) ==
    IF h = <<>> THEN <<>>
    ELSE (IF Head(h).categoryName = name THEN Head(h).snippets ELSE <<>>)
            \o SnippetsNamed(Tail(h), name)

\* number of snippets of a Document
RECURSIVE SnippetCount(_)
SnippetCount(root) ==
    IF root = <<>> THEN 0 ELSE Len(Head(root).snippets) + SnippetCount(Tail(root))

\* C10: for a language that starts without an output file, the persisted
\* Document holds one snippet per successful invocation for that language and
\* nothing else: the categories are in the order in which their names were
\* first submitted and the snippets of a category in the order of the
\* invocations that submitted them.
C10_DocumentIsTheHistory ==
    \A l \in Langs :
        started[l] = <<>> =>
            LET h == Submitted(history, l)
            IN  IF h = <<>> THEN storage[l] = <<>>
                ELSE /\ HasDocument(storage[l])
                     /\ LET root == Document(storage[l])
                            names == FirstNames(h)
                        IN  /\ SnippetCount(root) = Len(h)
                            /\ Len(root) = Len(names)
                            /\ \A i \in 1..Len(root) :
                                  /\ root[i].categoryName = names[i]
                                  /\ root[i].snippets = SnippetsNamed(h, names[i])

C10_Witness ==
    \E l \in Langs :
        /\ started[l] = <<>>
        /\ HasDocument(storage[l])
        /\ LET h == Submitted(history, l)
           IN  /\ Len(h) = 3
               /\ h[1].categoryName = h[3].categoryName
               /\ h[1].categoryName # h[2].categoryName
               /\ h[1].snippets # h[3].snippets

-----------------------------------------------------------------------------
(* Properties of parse_code, under SpecParse *)

\* C4: parse_code raises exactly when the text has fewer than 7 lines and
\* then produces no category; a text of 7 or more lines is parsed whatever
\* its title, tags and code are, and a text of exactly 7 lines gives a code
\* sequence of length 1.
C4_FailsExactlyBelowSevenLines ==
    outcome # "none" =>
        LET n == LineCount(input.content)
        IN  /\ n < 7 => outcome = "SyntaxError" /\ converted = <<>>
            /\ n >= 7 => outcome = "parsed" /\ Len(converted) = 1
            /\ (n = 7 /\ converted # <<>>) => Len(Parsed.code) = 1

C4_Witness ==
    /\ outcome = "SyntaxError"
    /\ LineCount(input.content) = 6
    /\ converted = <<>>

\* the lines that may stand in for the separator line
Separators == {<<>>, <<"a">>, <<" ", "#">>}

\* C5: for a text of n >= 7 lines, parse_code without a category returns one
\* category with one snippet whose code has n - 6 elements, the i-th being
\* line 6 + i of the text character for character, and the result is the same
\* whatever line 5 holds.
C5_CodeIsLinesFromSix ==
    (outcome = "parsed" /\ existing = <<>>) =>
        LET n == LineCount(input.content)
        IN  /\ Len(converted) = 1
            /\ Len(converted[1].snippets) = 1
            /\ Len(converted[1].snippets[1].code) = n - 6
            /\ \A i \in 0..(n - 7) :
                  converted[1].snippets[1].code[i + 1] = Line(input.content, 6 + i)
            /\ \A r \in Separators :
                  parse_code(WithLine(input.content, 5, r), <<>>) = converted

C5_Witness ==
    /\ outcome = "parsed"
    /\ existing = <<>>
    /\ Len(converted[1].snippets[1].code) = 2
    /\ Line(input.content, 5) # <<>>
    /\ converted[1].snippets[1].code[2] = <<>>

\* C6: every metadata field is its line with a comment marker removed only
\* if the marker starts the line, then trimmed; a marker elsewhere in the line
\* stays in the field.
C6_OnlyLeadingMarkerRemoved ==
    (outcome = "parsed" /\ existing = <<>>) =>
        /\ converted[1].categoryName = Trimmed(Unmarked(Line(input.content, 0)))
        /\ Parsed.title = Trimmed(Unmarked(Line(input.content, 1)))
        /\ Parsed.description = Trimmed(Unmarked(Line(input.content, 2)))
        /\ Parsed.author = Trimmed(Unmarked(Line(input.content, 4)))

====
